---- MODULE Spec2Model ----
(***************************************************************************)
(* Model of the iot_iam local cache (src/iot_iam/db.py: DeviceDB and       *)
(* CacheManager over SQLite), of the operations of IAMClient               *)
(* (src/iot_iam/core.py) on the contract and on the cache, and of Config   *)
(* and ConfigBuilder (src/iot_iam/config.py).                              *)
(*                                                                         *)
(* The SQLite tables are modelled as sets of rows.  The columns createdAt  *)
(* and updatedAt (wall-clock defaults) are not modelled: no operation of   *)
(* the program reads them back into a decision.                            *)
(***************************************************************************)
EXTENDS Integers, Sequences, FiniteSets, TLC

VARIABLES
    conn,       \* DeviceDB.conn: "open" after _connect, "closed" after close()
    storageOk,  \* environment: TRUE while SQLite statements can be executed
    devices,    \* rows of table devices
    logs,       \* rows of table logs
    seq,        \* sqlite_sequence entry of table logs (AUTOINCREMENT)
    ledger,     \* AccessLogged events emitted by the contract, oldest first
    txn,        \* the open transaction of conn: where each thread stands in
                \* _get_cursor, and the statements executed but not committed
    environ,    \* os.environ of the process, the three required variables
    last        \* the most recent step: operation, arguments, returned value

vars == <<conn, storageOk, devices, logs, seq, ledger, txn, environ, last>>

----------------------------------------------------------------------------
(* Bounds of the model *)

NumTx == 3        \* distinct transactions (hence transaction hashes)
MaxEvents == 5    \* events the ledger can hold
MaxSeq == 4       \* cap on the AUTOINCREMENT counter of logs
MaxLimit == 3     \* largest small limit passed to the read operations

DefaultLimit == 100   \* default of the limit parameter of the read operations

----------------------------------------------------------------------------
(* Small helpers *)

Min(a, b) == IF a <= b THEN a ELSE b

Range(s) == {s[i] : i \in 1..Len(s)}

Take(s, n) == SubSeq(s, 1, Min(n, Len(s)))

----------------------------------------------------------------------------
(* Input domains *)

Addresses == {"0xA", "0xB"}

\* HexBytes.hex() of a transaction hash; transaction n has hash bytes n
hex(n) == <<"0x01", "0x02", "0x03", "0x04", "0x05", "0x06", "0x07", "0x08">>[n]

TxHashes == {hex(n) : n \in 1..NumTx}

\* Field values carried by the v-th kind of event of transaction n
\* (v = 1: the first event a transaction emits, v = 2: a further event of it)
EvDevice(n, v) == IF (n + v) % 2 = 0 THEN "0xA" ELSE "0xB"
EvTimestamp(n, v) ==
    IF v = 1 THEN <<100, 300, 200>>[((n - 1) % 3) + 1]
    ELSE <<200, 100, 300>>[((n - 1) % 3) + 1]
EvReason(n, v) == IF v = 1 THEN "r1" ELSE "r2"
EvSuccess(n, v) == (v = 1)

\* An event_entry as web3 returns it (args and transactionHash)
Event(n, v) ==
    [device |-> EvDevice(n, v), success |-> EvSuccess(n, v), reason |-> EvReason(n, v),
     timestamp |-> EvTimestamp(n, v), transactionHash |-> n]

\* The log_entry dictionary get_logs builds from an event_entry
log_entry(ev) ==
    [device |-> ev.device, success |-> ev.success, reason |-> ev.reason,
     timestamp |-> ev.timestamp, tx_hash |-> hex(ev.transactionHash)]

\* Arguments of a direct insert_log / sync_log call
\* (every first event, and the second event of transaction 1, whose fields
\* all differ from those of the first)
Entries == {log_entry(Event(n, 1)) : n \in 1..NumTx} \cup {log_entry(Event(1, 2))}

NoEntry == [device |-> "", success |-> FALSE, reason |-> "", timestamp |-> 0, tx_hash |-> ""]

Limits == (-1 .. MaxLimit) \cup {DefaultLimit}

\* Device rows a cache file can already hold when the client starts
DeviceRow(a, n, ro, md, reg) ==
    [address |-> a, name |-> n, role |-> ro, metadata |-> md, registeredAt |-> reg]

----------------------------------------------------------------------------
(* utils.build_response: keys whose value is None are left out of the envelope *)

build_response(status, hasData, data, message) ==
    [status |-> status, hasData |-> hasData, data |-> data, message |-> message]

----------------------------------------------------------------------------
(* DeviceDB: the SQL statements *)

\* How a body run under "with self._get_cursor()" ends.  conn.cursor() is
\* called before the try block, so on a closed connection its
\* sqlite3.ProgrammingError leaves _get_cursor unconverted; a statement that
\* fails inside the block is rolled back and re-raised as CacheError.
get_cursor(c, ok) ==
    IF c = "closed" THEN "ProgrammingError"
    ELSE IF ~ok THEN "CacheError"
    ELSE "commit"

\* int(success): the value stored in the INTEGER column
int(b) == IF b THEN 1 ELSE 0

LogRow(id, e) ==
    [id |-> id, device |-> e.device, success |-> int(e.success), reason |-> e.reason,
     timestamp |-> e.timestamp, txHash |-> e.tx_hash]

\* Variants of the insert statement that a slip in the SQL would produce:
\* a logs table without the UNIQUE constraint on txHash,
InsertNoUnique(rows, s, e) ==
    [status |-> "ok", logs |-> rows \cup {LogRow(s + 1, e)}, seq |-> s + 1]

\* INSERT OR REPLACE instead of INSERT OR IGNORE,
InsertOrReplaceLog(rows, s, e) ==
    [status |-> "ok", logs |-> {r \in rows : r.txHash # e.tx_hash} \cup {LogRow(s + 1, e)},
     seq |-> s + 1]

\* and a plain INSERT, which fails with IntegrityError on a stored txHash
InsertPlain(rows, s, e) ==
    IF \E r \in rows : r.txHash = e.tx_hash
    THEN [status |-> "IntegrityError", logs |-> rows, seq |-> s]
    ELSE [status |-> "ok", logs |-> rows \cup {LogRow(s + 1, e)}, seq |-> s + 1]

\* id INTEGER PRIMARY KEY without AUTOINCREMENT: the new id is one more than
\* the largest id that is stored now
InsertWithoutAutoincrement(rows, s, e) ==
    LET top == IF rows = {} THEN 0 ELSE CHOOSE i \in {r.id : r \in rows} : \A r \in rows : r.id <= i
    IN  IF \E r \in rows : r.txHash = e.tx_hash
        THEN [status |-> "ok", logs |-> rows, seq |-> s + 1]
        ELSE [status |-> "ok", logs |-> rows \cup {LogRow(top + 1, e)}, seq |-> s + 1]

\* INSERT OR IGNORE INTO logs ... : txHash is UNIQUE, id is AUTOINCREMENT.
\* SQLite allocates the next id before it checks the UNIQUE constraint, so an
\* ignored insert uses up an id as well.
InsertOrIgnore(rows, s, e) ==
    IF \E r \in rows : r.txHash = e.tx_hash
    THEN [status |-> "ok", logs |-> rows, seq |-> s + 1]
    ELSE [status |-> "ok", logs |-> rows \cup {LogRow(s + 1, e)}, seq |-> s + 1]

\* insert_log without the rollback of a failed statement
insert_log_no_rollback(c, ok, rows, s, e) ==
    LET cur == get_cursor(c, ok)
        x == InsertOrIgnore(rows, s, e)
    IN  IF cur = "ProgrammingError"
        THEN [ret |-> "ProgrammingError", logs |-> rows, seq |-> s]
        ELSE IF cur = "CacheError" \/ x.status # "ok"
        THEN [ret |-> "False", logs |-> x.logs, seq |-> x.seq]
        ELSE [ret |-> "True", logs |-> x.logs, seq |-> x.seq]

\* DeviceDB.insert_log: returned value and the table afterwards
insert_log(c, ok, rows, s, e) ==
    LET cur == get_cursor(c, ok)
        x == InsertOrIgnore(rows, s, e)
    IN  IF cur = "ProgrammingError"
        THEN [ret |-> "ProgrammingError", logs |-> rows, seq |-> s]
        ELSE IF cur = "CacheError" \/ x.status # "ok"
        THEN [ret |-> "False", logs |-> rows, seq |-> s]
        ELSE [ret |-> "True", logs |-> x.logs, seq |-> x.seq]

\* ORDER BY timestamp (ascending) in place of ORDER BY timestamp DESC
RECURSIVE OrderByTimestampAsc(_)
OrderByTimestampAsc(rows) ==
    IF rows = {} THEN {<<>>}
    ELSE UNION {{<<r>> \o t : t \in OrderByTimestampAsc(rows \ {r})} :
                   r \in {m \in rows : \A o \in rows : o.timestamp >= m.timestamp}}

\* ORDER BY timestamp DESC: every enumeration of the rows with non-increasing
\* timestamps; SQL leaves the order of rows with equal timestamps open
RECURSIVE OrderByTimestampDesc(_)
OrderByTimestampDesc(rows) ==
    IF rows = {} THEN {<<>>}
    ELSE UNION {{<<r>> \o t : t \in OrderByTimestampDesc(rows \ {r})} :
                   r \in {m \in rows : \A o \in rows : o.timestamp <= m.timestamp}}

\* get_device_logs without its WHERE clause
AllRows(rows, address) == rows

\* WHERE device = ?
WhereDevice(rows, address) == {r \in rows : r.device = address}

\* LIMIT ? : a negative limit means no upper bound in SQLite
LimitRows(ord, limit) == IF limit < 0 THEN ord ELSE Take(ord, limit)

\* Totals taken from the largest id instead of COUNT(*)
CountsByMaxId(drows, lrows) ==
    [total_devices |-> Cardinality(drows),
     total_logs |-> IF lrows = {} THEN 0
                    ELSE CHOOSE i \in {r.id : r \in lrows} : \A r \in lrows : r.id <= i]

\* SELECT COUNT(*) of both tables
Counts(drows, lrows) ==
    [total_devices |-> Cardinality(drows), total_logs |-> Cardinality(lrows)]

ZeroCounts == [total_devices |-> 0, total_logs |-> 0]

\* DeviceDB.get_stats
get_stats(c, ok, drows, lrows) ==
    LET cur == get_cursor(c, ok)
    IN  IF cur = "ProgrammingError" THEN [ret |-> "ProgrammingError", totals |-> ZeroCounts]
        ELSE IF cur = "CacheError" THEN [ret |-> "ok", totals |-> ZeroCounts]
        ELSE [ret |-> "ok", totals |-> Counts(drows, lrows)]

----------------------------------------------------------------------------
(* DeviceDB: the devices table *)

\* The arguments of insert_device that the callers of the model pass
DeviceInputs ==
    {DeviceRow("0xA", "X", "sensor", "", 1),
     DeviceRow("0xA", "Y", "actuator", "m", 2),
     DeviceRow("0xA", "Y", "actuator", "m", 1),
     DeviceRow("0xB", "X", "sensor", "", 1)}

NoDevice == DeviceRow("", "", "", "", 0)

\* CacheManager.sync_device: the keys of the dictionary become the arguments
\* of insert_device
device_info(d) ==
    [address |-> d.address, name |-> d.name, role |-> d.role,
     metadata |-> d.metadata, registered_at |-> d.registeredAt]

sync_device_args(info) ==
    DeviceRow(info.address, info.name, info.role, info.metadata, info.registered_at)

\* INSERT OR IGNORE in place of INSERT OR REPLACE: the stored row stays
InsertOrIgnoreDevice(rows, d) ==
    IF \E r \in rows : r.address = d.address THEN rows ELSE rows \cup {d}

\* An upsert that keeps the registeredAt of the stored row
InsertKeepRegisteredAt(rows, d) ==
    {r \in rows : r.address # d.address}
        \cup {[d EXCEPT !.registeredAt =
                  IF \E r \in rows : r.address = d.address
                  THEN (CHOOSE r \in rows : r.address = d.address).registeredAt
                  ELSE d.registeredAt]}

\* INSERT OR REPLACE INTO devices: address is the primary key, the row of the
\* same address is deleted and the new row inserted with all its columns
InsertOrReplace(rows, d) ==
    {r \in rows : r.address # d.address} \cup {d}

\* insert_device that commits the half of the replacement done before the
\* failure: the row of the address is deleted, the new row is not inserted
insert_device_no_rollback(c, ok, rows, d) ==
    LET cur == get_cursor(c, ok)
    IN  IF cur = "ProgrammingError" THEN [ret |-> "ProgrammingError", devices |-> rows]
        ELSE IF cur = "CacheError"
        THEN [ret |-> "False", devices |-> {r \in rows : r.address # d.address}]
        ELSE [ret |-> "True", devices |-> InsertOrReplace(rows, d)]

\* DeviceDB.insert_device
insert_device(c, ok, rows, d) ==
    LET cur == get_cursor(c, ok)
    IN  IF cur = "ProgrammingError" THEN [ret |-> "ProgrammingError", devices |-> rows]
        ELSE IF cur = "CacheError" THEN [ret |-> "False", devices |-> rows]
        ELSE [ret |-> "True", devices |-> InsertOrReplace(rows, d)]

\* DELETE FROM logs that deletes the devices as well
clear_logs_all(c, ok, drows, lrows) ==
    LET cur == get_cursor(c, ok)
    IN  IF cur = "ProgrammingError" THEN [ret |-> cur, devices |-> drows, logs |-> lrows]
        ELSE IF cur = "CacheError" THEN [ret |-> "False", devices |-> drows, logs |-> lrows]
        ELSE [ret |-> "True", devices |-> {}, logs |-> {}]

\* DeviceDB.clear_logs: DELETE FROM logs
clear_logs(c, ok, drows, lrows) ==
    LET cur == get_cursor(c, ok)
    IN  IF cur = "ProgrammingError" THEN [ret |-> cur, devices |-> drows, logs |-> lrows]
        ELSE IF cur = "CacheError" THEN [ret |-> "False", devices |-> drows, logs |-> lrows]
        ELSE [ret |-> "True", devices |-> drows, logs |-> {}]

\* DeviceDB.clear_devices: DELETE FROM devices
clear_devices(c, ok, drows, lrows) ==
    LET cur == get_cursor(c, ok)
    IN  IF cur = "ProgrammingError" THEN [ret |-> cur, devices |-> drows, logs |-> lrows]
        ELSE IF cur = "CacheError" THEN [ret |-> "False", devices |-> drows, logs |-> lrows]
        ELSE [ret |-> "True", devices |-> {}, logs |-> lrows]

----------------------------------------------------------------------------
(* IAMClient: ledger fetch and cache synchronisation *)

RECURSIVE MapLogEntry(_)
MapLogEntry(events) ==
    IF events = <<>> THEN <<>>
    ELSE <<log_entry(Head(events))>> \o MapLogEntry(Tail(events))

\* get_logs that skips a malformed event instead of failing as a whole
get_logs_skip_malformed(events, outcome) ==
    IF outcome = "no_event" THEN build_response("success", TRUE, <<>>, "")
    ELSE IF outcome = "ok" THEN build_response("success", TRUE, MapLogEntry(events), "")
    ELSE IF outcome = "malformed"
    THEN build_response("success", TRUE, MapLogEntry(SubSeq(events, 1, Len(events) - 1)), "")
    ELSE build_response("error", FALSE, <<>>, outcome)

\* IAMClient.get_logs.  outcome is what the ledger collaborator does:
\*   "ok"          the filter returns every event of the ledger
\*   "unreachable" create_filter / get_all_entries raises
\*   "malformed"   the newest event_entry lacks a key the loop indexes
\*   "no_event"    the ABI has none of the three event names
get_logs(events, outcome) ==
    IF outcome = "no_event" THEN build_response("success", TRUE, <<>>, "")
    ELSE IF outcome = "ok" THEN build_response("success", TRUE, MapLogEntry(events), "")
    ELSE build_response("error", FALSE, <<>>, outcome)

\* The for loop of sync_cache over logs_result['data'], from index i on.
\* Statements can be executed for the first k records only; insert_log
\* swallows a CacheError (returns False) and the loop goes on, an exception
\* of another kind ends the loop.
RECURSIVE SyncLoop(_, _, _, _, _, _)
SyncLoop(c, rows, s, data, i, k) ==
    IF i > Len(data) THEN [raised |-> FALSE, logs |-> rows, seq |-> s]
    ELSE LET x == insert_log(c, i <= k, rows, s, data[i])
         IN  IF x.ret = "ProgrammingError"
             THEN [raised |-> TRUE, logs |-> x.logs, seq |-> x.seq]
             ELSE SyncLoop(c, x.logs, x.seq, data, i + 1, k)

\* A sync_cache that also caches a device row for the device of every record
\* it inserts
sync_cache_with_devices(c, drows, logs_result, k) ==
    IF logs_result.status = "success" /\ c = "open"
    THEN drows \cup {DeviceRow(logs_result.data[i].device, "X", "sensor", "", 1) :
                        i \in 1..Min(k, Len(logs_result.data))}
    ELSE drows

\* The devices table after sync_cache: the method calls get_logs and
\* insert_log only, never insert_device or sync_device
sync_cache_devices(c, drows, logs_result, k) == drows

\* IAMClient.sync_cache
sync_cache(c, rows, s, logs_result, k) ==
    IF logs_result.status = "success"
    THEN LET x == SyncLoop(c, rows, s, logs_result.data, 1, k)
         IN  IF x.raised
             THEN [env |-> build_response("error", FALSE, <<>>, "ProgrammingError"),
                   logs |-> x.logs, seq |-> x.seq]
             ELSE [env |-> build_response("success", FALSE, <<>>, "Cache synced"),
                   logs |-> x.logs, seq |-> x.seq]
    ELSE [env |-> build_response("success", FALSE, <<>>, "Cache synced"),
          logs |-> rows, seq |-> s]

----------------------------------------------------------------------------
(* IAMClient: the operations on the contract *)

\* Address arguments: "0xA" and "0xB" stand for checksummed 20-byte
\* addresses, "0xa" for the lower-case spelling of "0xA", "0xG" for a string
\* with a character that is no hexadecimal digit, "" for the empty string
AddressInputs == {"0xA", "0xa", "0xB", "0xG", ""}

\* Web3.to_checksum_address: the checksummed spelling of a hexadecimal
\* address of any case, ValueError for everything else
to_checksum_address(a) ==
    IF a \in {"0xA", "0xa"} THEN [raised |-> FALSE, value |-> "0xA"]
    ELSE IF a = "0xB" THEN [raised |-> FALSE, value |-> "0xB"]
    ELSE [raised |-> TRUE, value |-> "ValueError"]

format_address(a) == to_checksum_address(a)

\* validate_address that accepts every string
validate_address_any(a) == TRUE

\* validate_address: ValueError and TypeError of the conversion become False
validate_address(a) == ~to_checksum_address(a).raised

\* The functions of the loaded contract ABI: the names the client uses first,
\* an ABI with alternative names that lacks some functions, an empty ABI
FullAbi ==
    {"registerDevice", "grantAccess", "revokeAccess", "assignRole", "logAccess",
     "checkAccess", "getDevice"}

AltAbi == {"registerDevice", "grantAccess", "hasAccess", "devices"}

Abis == {FullAbi, AltAbi, {}}

\* What the node does with a request: the transaction is mined with receipt
\* status 1, mined with receipt status 0, rejected with a revert that web3
\* raises as ContractLogicError, or the node cannot be reached
NodeOutcomes == {"mined", "reverted", "revert_raised", "unreachable"}

\* The result of a facade operation: the status of the envelope, or the name
\* of the exception that left the operation, and the number of requests sent
\* to the node
Returned(status, calls) == [ret |-> status, raised |-> FALSE, calls |-> calls]

Raised(exc, calls) == [ret |-> exc, raised |-> TRUE, calls |-> calls]

\* _send_transaction that reports every rejection by the contract as failed
send_transaction_revert_failed(node) ==
    IF node = "mined" THEN Returned("success", 4)
    ELSE IF node = "reverted" THEN Returned("failed", 4)
    ELSE IF node = "revert_raised" THEN Returned("failed", 3)
    ELSE Returned("error", 1)

\* IAMClient._send_transaction: nonce, gas price, send, receipt
send_transaction(node) ==
    IF node = "mined" THEN Returned("success", 4)
    ELSE IF node = "reverted" THEN Returned("failed", 4)
    ELSE IF node = "revert_raised" THEN Returned("error", 3)
    ELSE Returned("error", 1)

\* register_device, grant_access, revoke_access, assign_role: the arguments
\* of _send_transaction are evaluated before it is entered, the attribute of
\* contract.functions first, format_address second
address_transaction(fn, address, abi, node) ==
    IF ~validate_address(address) THEN Returned("error", 0)
    ELSE IF fn \notin abi THEN Raised("ABIFunctionNotFound", 0)
    ELSE IF format_address(address).raised THEN Raised("ValueError", 0)
    ELSE send_transaction(node)

\* log_access takes no address
log_access(abi, node) ==
    IF "logAccess" \notin abi THEN Raised("ABIFunctionNotFound", 0)
    ELSE send_transaction(node)

\* check_access and get_device_info: hasattr over three names, the first
\* that exists is called; every exception becomes an error envelope
address_call(names, address, abi, node) ==
    IF ~validate_address(address) THEN Returned("error", 0)
    ELSE IF names \cap abi = {} THEN Returned("error", 0)
    ELSE IF format_address(address).raised THEN Returned("error", 0)
    ELSE IF node = "mined" THEN Returned("success", 1)
    ELSE Returned("error", 1)

\* A register_device that caches the device once its transaction is mined
register_device_caches(op, x, address, drows) ==
    IF op = "register_device" /\ x.ret = "success"
    THEN InsertOrReplace(drows, DeviceRow(format_address(address).value, "X", "sensor", "", 1))
    ELSE drows

\* The devices table after an operation on the contract: no statement of
\* these methods refers to self._cache_manager
facade_cache_effect(op, x, address, drows) == drows

CheckAccessNames == {"checkAccess", "hasAccess", "isAuthorized"}

DeviceInfoNames == {"getDevice", "devices", "getDeviceInfo"}

----------------------------------------------------------------------------
(* Threads of one process that share the DeviceDB object *)

\* The thread that constructed the DeviceDB (and so made the connection)
Owner == "main"

Threads == {Owner, "worker1", "worker2"}

\* A connection that may be used from every thread
check_same_thread_off == FALSE

\* sqlite3.connect(str(self.db_path)): check_same_thread keeps its default
check_same_thread == TRUE

\* The test every method of the connection and of its cursors starts with;
\* it raises sqlite3.ProgrammingError in a thread that is not the creator
thread_check(t) == ~check_same_thread \/ t = Owner

NoTxn == [pc |-> [t \in Threads |-> "idle"], writes |-> <<>>]

\* An executed INSERT of the open transaction
DeviceWrite(t, d) == [thread |-> t, table |-> "devices", device |-> d, entry |-> NoEntry]

LogWrite(t, e) == [thread |-> t, table |-> "logs", device |-> NoDevice, entry |-> e]

\* The log entries the threads insert: both events of the first transaction
ThreadEntries == {log_entry(Event(1, 1)), log_entry(Event(1, 2))}

\* The tables with the statements ws applied in their order
RECURSIVE ApplyWrites(_, _, _, _)
ApplyWrites(drows, lrows, s, ws) ==
    IF ws = <<>> THEN [devices |-> drows, logs |-> lrows, seq |-> s]
    ELSE LET w == Head(ws)
         IN  IF w.table = "devices"
             THEN ApplyWrites(InsertOrReplace(drows, w.device), lrows, s, Tail(ws))
             ELSE LET x == InsertOrIgnore(lrows, s, w.entry)
                  IN  ApplyWrites(drows, x.logs, x.seq, Tail(ws))

WritesOf(ws, t) == SelectSeq(ws, LAMBDA w : w.thread = t)

WritesOfOthers(ws, t) == SelectSeq(ws, LAMBDA w : w.thread # t)

Active(x) == {t \in Threads : x.pc[t] # "idle"}

----------------------------------------------------------------------------
(* Config and ConfigBuilder *)

\* The required variables; "" stands for a variable that is not set (None)
\* or empty, which _validate treats alike
RequiredKeys == {"RPC_URL", "PRIVATE_KEY", "CONTRACT_ADDRESS"}

NoValues == [k \in RequiredKeys |-> ""]

\* Builders as they stand when build() is called: each with_ method was
\* called with "v1" or "v2", or never
Builders == [RequiredKeys -> {"", "v1", "v2"}]

\* The .env file: missing (or without the three variables), or defining all
DotenvFiles == {NoValues, [k \in RequiredKeys |-> "f"]}

\* load_dotenv(env_file): override is False, a variable of the file is set
\* in os.environ unless the process has it already
load_dotenv(env, file) ==
    [k \in RequiredKeys |-> IF env[k] # "" THEN env[k] ELSE file[k]]

\* Config.__init__: load_dotenv, os.getenv of the three variables, _validate
Config(env, file) ==
    LET e == load_dotenv(env, file)
    IN  [environ |-> e, config |-> e,
         ret |-> IF \E k \in RequiredKeys : e[k] = "" THEN "ConfigurationError" ELSE "ok"]

\* ConfigBuilder.build: the fields that are set are written to os.environ and
\* stay there; Config() then reads the default file ".env"
build(env, b, file) ==
    Config([k \in RequiredKeys |-> IF b[k] # "" THEN b[k] ELSE env[k]], file)

----------------------------------------------------------------------------
(* The record of the most recent step *)

Blank ==
    [op |-> "init", entry |-> NoEntry, address |-> "", limit |-> 0, ret |-> "",
     rows |-> <<>>, totals |-> ZeroCounts, outcome |-> "", fetched |-> <<>>,
     committed |-> 0, pre |-> 0, dup |-> FALSE, device |-> NoDevice,
     abi |-> {}, raised |-> FALSE, calls |-> 0, thread |-> "",
     builder |-> NoValues, dotenv |-> NoValues, config |-> NoValues]

Stored(rows, h) == \E r \in rows : r.txHash = h

HasAddress(rows, a) == \E r \in rows : r.address = a

\* The registeredAt stored for an address, 0 without a row
StoredRegisteredAt(rows, a) ==
    IF HasAddress(rows, a) THEN (CHOOSE r \in rows : r.address = a).registeredAt ELSE 0

----------------------------------------------------------------------------
(* Initial states: DeviceDB.__init__ connects and creates the tables if they
   do not exist, so a cache file of an earlier session keeps its rows *)

InitDevices ==
    {{}, {DeviceRow("0xA", "X", "sensor", "", 1)}}

Init ==
    /\ conn = "open"
    /\ storageOk = TRUE
    /\ devices \in InitDevices
    /\ logs = {}
    /\ seq = 0
    /\ ledger = <<>>
    /\ txn = NoTxn
    /\ environ = NoValues
    /\ last = Blank

\* The client starts on a fresh cache file
InitFresh == Init /\ devices = {}

\* The client starts on a fresh cache file and a contract that has emitted
\* the events of two transactions before
InitLedger ==
    /\ conn = "open"
    /\ storageOk = TRUE
    /\ devices = {}
    /\ logs = {}
    /\ seq = 0
    /\ ledger = <<Event(1, 1), Event(2, 1), Event(2, 2)>>
    /\ txn = NoTxn
    /\ environ = NoValues
    /\ last = Blank

----------------------------------------------------------------------------
(* Environment *)

\* The storage under the connection stops executing statements
\* (disk full, I/O error, file locked by another process)
StorageFail ==
    /\ conn = "open"
    /\ storageOk
    /\ storageOk' = FALSE
    /\ last' = [Blank EXCEPT !.op = "storage_fail"]
    /\ UNCHANGED <<environ, txn, conn, devices, logs, seq, ledger>>

StorageRecover ==
    /\ ~storageOk
    /\ storageOk' = TRUE
    /\ last' = [Blank EXCEPT !.op = "storage_recover"]
    /\ UNCHANGED <<environ, txn, conn, devices, logs, seq, ledger>>

\* The contract emits one more event: the second event of the newest
\* transaction, or the first event of the next transaction
LedgerEmit ==
    /\ Len(ledger) < MaxEvents
    /\ \E ev \in {Event(n, v) : n \in 1..NumTx, v \in 1..2} :
          /\ IF ledger = <<>>
             THEN ev = Event(1, 1)
             ELSE LET n == ledger[Len(ledger)].transactionHash
                      v == ledger[Len(ledger)].reason
                  IN  \/ v = EvReason(n, 1) /\ ev = Event(n, 2)
                      \/ n < NumTx /\ ev = Event(n + 1, 1)
          /\ ledger' = Append(ledger, ev)
    /\ last' = [Blank EXCEPT !.op = "emit"]
    /\ UNCHANGED <<environ, txn, conn, storageOk, devices, logs, seq>>

\* The same with a ledger on which the first transaction emits one event and
\* every later transaction two
LedgerEmitPairs ==
    /\ Len(ledger) < MaxEvents
    /\ LET i == Len(ledger) + 1
           n == (i + 2) \div 2
       IN  /\ n <= NumTx
           /\ ledger' = Append(ledger, Event(n, IF i = 1 \/ i % 2 = 0 THEN 1 ELSE 2))
    /\ last' = [Blank EXCEPT !.op = "emit"]
    /\ UNCHANGED <<environ, txn, conn, storageOk, devices, logs, seq>>

----------------------------------------------------------------------------
(* DeviceDB / CacheManager operations *)

InsertLog ==
    /\ seq < MaxSeq
    /\ \E e \in Entries :
          LET x == insert_log(conn, storageOk, logs, seq, e)
          IN  /\ logs' = x.logs
              /\ seq' = x.seq
              /\ last' = [Blank EXCEPT !.op = "insert_log", !.entry = e, !.ret = x.ret,
                                       !.dup = Stored(logs, e.tx_hash)]
    /\ UNCHANGED <<environ, txn, conn, storageOk, devices, ledger>>

\* CacheManager.sync_log: insert_log on the fields of the dictionary
SyncLog ==
    /\ seq < MaxSeq
    /\ \E e \in Entries :
          LET x == insert_log(conn, storageOk, logs, seq, e)
          IN  /\ logs' = x.logs
              /\ seq' = x.seq
              /\ last' = [Blank EXCEPT !.op = "sync_log", !.entry = e, !.ret = x.ret,
                                       !.dup = Stored(logs, e.tx_hash)]
    /\ UNCHANGED <<environ, txn, conn, storageOk, devices, ledger>>

\* DeviceDB.fetch_logs
FetchLogs ==
    /\ \E limit \in Limits :
          LET cur == get_cursor(conn, storageOk)
          IN  \E ord \in OrderByTimestampDesc(logs) :
                 last' = [Blank EXCEPT !.op = "fetch_logs", !.limit = limit,
                             !.ret = IF cur = "ProgrammingError" THEN cur ELSE "ok",
                             !.rows = IF cur = "commit" THEN LimitRows(ord, limit) ELSE <<>>]
    /\ UNCHANGED <<environ, txn, conn, storageOk, devices, logs, seq, ledger>>

\* IAMClient.get_cached_logs: fetch_logs wrapped into an envelope
GetCachedLogs ==
    /\ \E limit \in Limits :
          LET cur == get_cursor(conn, storageOk)
          IN  \E ord \in OrderByTimestampDesc(logs) :
                 LET env == IF cur = "ProgrammingError"
                            THEN build_response("error", FALSE, <<>>, cur)
                            ELSE IF cur = "CacheError"
                            THEN build_response("success", TRUE, <<>>, "")
                            ELSE build_response("success", TRUE, LimitRows(ord, limit), "")
                 IN  last' = [Blank EXCEPT !.op = "get_cached_logs", !.limit = limit,
                                 !.ret = env.status, !.rows = env.data]
    /\ UNCHANGED <<environ, txn, conn, storageOk, devices, logs, seq, ledger>>

\* DeviceDB.get_device_logs
GetDeviceLogs ==
    /\ \E address \in Addresses, limit \in Limits :
          LET cur == get_cursor(conn, storageOk)
          IN  \E ord \in OrderByTimestampDesc(WhereDevice(logs, address)) :
                 last' = [Blank EXCEPT !.op = "get_device_logs", !.address = address,
                             !.limit = limit,
                             !.ret = IF cur = "ProgrammingError" THEN cur ELSE "ok",
                             !.rows = IF cur = "commit" THEN LimitRows(ord, limit) ELSE <<>>]
    /\ UNCHANGED <<environ, txn, conn, storageOk, devices, logs, seq, ledger>>

GetStats ==
    /\ LET x == get_stats(conn, storageOk, devices, logs)
       IN  last' = [Blank EXCEPT !.op = "get_stats", !.ret = x.ret, !.totals = x.totals]
    /\ UNCHANGED <<environ, txn, conn, storageOk, devices, logs, seq, ledger>>

\* DeviceDB.clear_logs: DELETE FROM logs keeps the sqlite_sequence entry
ClearLogs ==
    /\ LET x == clear_logs(conn, storageOk, devices, logs)
       IN  /\ logs' = x.logs
           /\ devices' = x.devices
           /\ last' = [Blank EXCEPT !.op = "clear_logs", !.ret = x.ret,
                                    !.pre = Cardinality(logs)]
    /\ UNCHANGED <<environ, txn, conn, storageOk, seq, ledger>>

ClearDevices ==
    /\ LET x == clear_devices(conn, storageOk, devices, logs)
       IN  /\ logs' = x.logs
           /\ devices' = x.devices
           /\ last' = [Blank EXCEPT !.op = "clear_devices", !.ret = x.ret,
                                    !.pre = Cardinality(devices)]
    /\ UNCHANGED <<environ, txn, conn, storageOk, seq, ledger>>

InsertDevice ==
    /\ \E d \in DeviceInputs :
          LET x == insert_device(conn, storageOk, devices, d)
          IN  /\ devices' = x.devices
              /\ last' = [Blank EXCEPT !.op = "insert_device", !.device = d,
                                       !.address = d.address, !.ret = x.ret,
                                       !.dup = HasAddress(devices, d.address),
                                       !.pre = StoredRegisteredAt(devices, d.address)]
    /\ UNCHANGED <<environ, txn, conn, storageOk, logs, seq, ledger>>

\* CacheManager.sync_device
SyncDevice ==
    /\ \E d \in DeviceInputs :
          LET a == sync_device_args(device_info(d))
              x == insert_device(conn, storageOk, devices, a)
          IN  /\ devices' = x.devices
              /\ last' = [Blank EXCEPT !.op = "sync_device", !.device = a,
                                       !.address = a.address, !.ret = x.ret,
                                       !.dup = HasAddress(devices, a.address),
                                       !.pre = StoredRegisteredAt(devices, a.address)]
    /\ UNCHANGED <<environ, txn, conn, storageOk, logs, seq, ledger>>

\* DeviceDB.close: self.conn stays set to the closed connection object
Close ==
    /\ conn' = "closed"
    /\ last' = [Blank EXCEPT !.op = "close"]
    /\ UNCHANGED <<environ, txn, storageOk, devices, logs, seq, ledger>>

----------------------------------------------------------------------------
(* IAMClient.sync_cache *)

SyncCache ==
    /\ \E outcome \in {"ok", "unreachable", "malformed", "no_event"} :
          /\ outcome = "malformed" => ledger # <<>>
          /\ LET logs_result == get_logs(ledger, outcome)
                 n == Len(logs_result.data)
             IN  \E k \in 0..n :
                    /\ (~storageOk \/ conn = "closed") => k = 0
                    /\ LET x == sync_cache(conn, logs, seq, logs_result, k)
                       IN  /\ x.seq <= MaxSeq
                           /\ devices' = sync_cache_devices(conn, devices, logs_result, k)
                           /\ logs' = x.logs
                           /\ seq' = x.seq
                           /\ storageOk' = (storageOk /\ (k = n \/ conn = "closed"))
                           /\ last' = [Blank EXCEPT !.op = "sync_cache", !.ret = x.env.status,
                                          !.outcome = outcome, !.fetched = logs_result.data,
                                          !.committed = k, !.pre = Cardinality(logs)]
    /\ UNCHANGED <<environ, txn, conn, ledger>>

----------------------------------------------------------------------------
(* IAMClient: operations on the contract; none of them uses the cache *)

Facade(op, x, address, abi, node) ==
    /\ last' = [Blank EXCEPT !.op = op, !.address = address, !.abi = abi,
                             !.outcome = node, !.ret = x.ret, !.raised = x.raised,
                             !.calls = x.calls]
    /\ devices' = facade_cache_effect(op, x, address, devices)
    /\ UNCHANGED <<environ, txn, conn, storageOk, logs, seq, ledger>>

RegisterDevice ==
    \E address \in AddressInputs, abi \in Abis, node \in NodeOutcomes :
       Facade("register_device",
              address_transaction("registerDevice", address, abi, node), address, abi, node)

GrantAccess ==
    \E address \in AddressInputs, abi \in Abis, node \in NodeOutcomes :
       Facade("grant_access",
              address_transaction("grantAccess", address, abi, node), address, abi, node)

RevokeAccess ==
    \E address \in AddressInputs, abi \in Abis, node \in NodeOutcomes :
       Facade("revoke_access",
              address_transaction("revokeAccess", address, abi, node), address, abi, node)

AssignRole ==
    \E address \in AddressInputs, abi \in Abis, node \in NodeOutcomes :
       Facade("assign_role",
              address_transaction("assignRole", address, abi, node), address, abi, node)

LogAccess ==
    \E abi \in Abis, node \in NodeOutcomes :
       Facade("log_access", log_access(abi, node), "", abi, node)

CheckAccess ==
    \E address \in AddressInputs, abi \in Abis, node \in NodeOutcomes :
       Facade("check_access",
              address_call(CheckAccessNames, address, abi, node), address, abi, node)

GetDeviceInfo ==
    \E address \in AddressInputs, abi \in Abis, node \in NodeOutcomes :
       Facade("get_device_info",
              address_call(DeviceInfoNames, address, abi, node), address, abi, node)

\* IAMClient.get_logs
GetLogs ==
    /\ \E outcome \in {"ok", "unreachable", "malformed", "no_event"} :
          /\ outcome = "malformed" => ledger # <<>>
          /\ LET env == get_logs(ledger, outcome)
             IN  last' = [Blank EXCEPT !.op = "get_logs", !.outcome = outcome,
                             !.ret = env.status, !.fetched = env.data,
                             !.calls = IF outcome = "no_event" THEN 0 ELSE 1]
    /\ UNCHANGED <<environ, txn, conn, storageOk, devices, logs, seq, ledger>>

----------------------------------------------------------------------------
(* DeviceDB operations of concurrent threads, one step per call on the
   connection: a thread can be preempted between the execute of its
   statement and the commit or rollback at the end of _get_cursor *)

Rejected(op, t) ==
    /\ last' = [Blank EXCEPT !.op = op, !.thread = t, !.ret = "ProgrammingError",
                             !.raised = TRUE]
    /\ UNCHANGED <<environ, conn, storageOk, devices, logs, seq, ledger, txn>>

\* insert_device / insert_log up to cursor.execute
ThreadExecute ==
    \E t \in Threads :
       \E w \in {DeviceWrite(t, d) : d \in DeviceInputs}
                  \cup {LogWrite(t, e) : e \in ThreadEntries} :
          /\ txn.pc[t] = "idle"
          /\ w.table = "logs" => ApplyWrites(devices, logs, seq, txn.writes).seq < MaxSeq
          /\ IF ~thread_check(t) \/ conn = "closed"
             THEN Rejected("execute", t)
             ELSE /\ txn' = IF storageOk
                            THEN [pc |-> [txn.pc EXCEPT ![t] = "commit"],
                                  writes |-> Append(txn.writes, w)]
                            ELSE [txn EXCEPT !.pc[t] = "rollback"]
                  /\ last' = [Blank EXCEPT !.op = "execute", !.thread = t,
                                           !.device = w.device, !.entry = w.entry]
                  /\ UNCHANGED <<environ, conn, storageOk, devices, logs, seq, ledger>>

\* self.conn.commit(): commits the transaction of the connection; a commit
\* that raises is followed by self.conn.rollback()
ThreadCommit ==
    \E t \in Threads :
       /\ txn.pc[t] = "commit"
       /\ LET x == ApplyWrites(devices, logs, seq, txn.writes)
          IN  /\ devices' = IF storageOk THEN x.devices ELSE devices
              /\ logs' = IF storageOk THEN x.logs ELSE logs
              /\ seq' = IF storageOk THEN x.seq ELSE seq
       /\ txn' = [pc |-> [txn.pc EXCEPT ![t] = "idle"], writes |-> <<>>]
       /\ last' = [Blank EXCEPT !.op = "commit", !.thread = t,
                                !.ret = IF storageOk THEN "True" ELSE "False"]
       /\ UNCHANGED <<environ, conn, storageOk, ledger>>

\* self.conn.rollback() after a statement that raised
ThreadRollback ==
    \E t \in Threads :
       /\ txn.pc[t] = "rollback"
       /\ txn' = [pc |-> [txn.pc EXCEPT ![t] = "idle"], writes |-> <<>>]
       /\ last' = [Blank EXCEPT !.op = "rollback", !.thread = t, !.ret = "False"]
       /\ UNCHANGED <<environ, conn, storageOk, devices, logs, seq, ledger>>

\* get_stats, get_device, fetch_logs: the SELECT sees the statements of the
\* open transaction of its connection, and the commit at the end of
\* _get_cursor commits them (the rollback after a failure discards them)
ThreadRead ==
    \E t \in Threads, op \in {"get_stats", "get_device", "fetch_logs"}, address \in Addresses :
       /\ txn.pc[t] = "idle"
       /\ IF ~thread_check(t) \/ conn = "closed"
          THEN Rejected(op, t)
          ELSE LET x == ApplyWrites(devices, logs, seq, txn.writes)
               IN  /\ devices' = IF storageOk THEN x.devices ELSE devices
                   /\ logs' = IF storageOk THEN x.logs ELSE logs
                   /\ seq' = IF storageOk THEN x.seq ELSE seq
                   /\ txn' = [txn EXCEPT !.writes = <<>>]
                   /\ \E ord \in OrderByTimestampDesc(x.logs) :
                         last' = [Blank EXCEPT
                            !.op = op, !.thread = t, !.ret = "ok",
                            !.address = IF op = "get_device" THEN address ELSE "",
                            !.limit = IF op = "fetch_logs" THEN DefaultLimit ELSE 0,
                            !.totals = IF op = "get_stats" /\ storageOk
                                       THEN Counts(x.devices, x.logs) ELSE ZeroCounts,
                            !.device = IF op = "get_device" /\ storageOk
                                          /\ HasAddress(x.devices, address)
                                       THEN CHOOSE r \in x.devices : r.address = address
                                       ELSE NoDevice,
                            !.rows = IF op = "fetch_logs" /\ storageOk
                                     THEN LimitRows(ord, DefaultLimit) ELSE <<>>]
                   /\ UNCHANGED <<environ, conn, storageOk, ledger>>

----------------------------------------------------------------------------
(* Configuration *)

\* Config(env_file)
ConfigInit ==
    /\ \E file \in DotenvFiles :
          LET x == Config(environ, file)
          IN  /\ environ' = x.environ
              /\ last' = [Blank EXCEPT !.op = "Config", !.dotenv = file, !.ret = x.ret,
                             !.raised = (x.ret # "ok"), !.config = x.config]
    /\ UNCHANGED <<conn, storageOk, devices, logs, seq, ledger, txn>>

\* ConfigBuilder().with_...().build()
BuilderBuild ==
    /\ \E b \in Builders, file \in DotenvFiles :
          LET x == build(environ, b, file)
          IN  /\ environ' = x.environ
              /\ last' = [Blank EXCEPT !.op = "build", !.builder = b, !.dotenv = file,
                             !.ret = x.ret, !.raised = (x.ret # "ok"),
                             !.config = x.config]
    /\ UNCHANGED <<conn, storageOk, devices, logs, seq, ledger, txn>>

----------------------------------------------------------------------------
(* Specifications *)

\* The synchronisation of the cache from the ledger, with storage faults
Next ==
    \/ SyncCache
    \/ GetStats
    \/ ClearLogs
    \/ LedgerEmit
    \/ StorageFail
    \/ StorageRecover
    \/ Close

Spec == Init /\ [][Next]_vars

\* Every operation that writes the logs table
NextDedup ==
    \/ InsertLog
    \/ SyncLog
    \/ SyncCache
    \/ ClearLogs
    \/ LedgerEmitPairs
    \/ StorageRecover

SpecDedup == InitFresh /\ [][NextDedup]_vars

\* The store operations alone (the ledger stays empty)
NextStore ==
    \/ InsertLog
    \/ FetchLogs
    \/ GetCachedLogs
    \/ GetDeviceLogs
    \/ ClearLogs
    \/ StorageFail
    \/ StorageRecover
    \/ Close

SpecStore == InitFresh /\ [][NextStore]_vars

\* Both tables of the store under storage faults
NextDevices ==
    \/ InsertDevice
    \/ SyncDevice
    \/ InsertLog
    \/ ClearDevices
    \/ ClearLogs
    \/ GetStats
    \/ StorageFail
    \/ StorageRecover

SpecDevices == Init /\ [][NextDevices]_vars

\* The operations of the facade on the contract and its events
NextFacade ==
    \/ RegisterDevice
    \/ GrantAccess
    \/ RevokeAccess
    \/ AssignRole
    \/ LogAccess
    \/ CheckAccess
    \/ GetDeviceInfo
    \/ GetLogs
    \/ LedgerEmitPairs

SpecFacade == Init /\ [][NextFacade]_vars

\* Threads of one process on the shared DeviceDB
NextThreads ==
    \/ ThreadExecute
    \/ ThreadCommit
    \/ ThreadRollback
    \/ ThreadRead
    \/ StorageFail
    \/ StorageRecover

SpecThreads == InitFresh /\ [][NextThreads]_vars

\* The writers of both tables, the synchronisation and a read
NextRows ==
    \/ InsertLog
    \/ InsertDevice
    \/ SyncCache
    \/ GetStats
    \/ ClearLogs
    \/ ClearDevices
    \/ StorageRecover

SpecRows == InitLedger /\ [][NextRows]_vars

\* Configurations built one after the other in one process
NextConfig ==
    \/ ConfigInit
    \/ BuilderBuild

SpecConfig == InitFresh /\ [][NextConfig]_vars

----------------------------------------------------------------------------
(* Properties *)

UniqueTxHash(rows) == \A r1, r2 \in rows : r1.txHash = r2.txHash => r1 = r2

IsInsert(l) == l.op \in {"insert_log", "sync_log"}

FetchFailed(l) == l.outcome \in {"unreachable", "malformed"}

FetchSucceeded(l) == l.outcome \in {"ok", "no_event"}

\* C1: after every step of insert_log, sync_log, sync_cache and clear_logs the
\* logs table holds at most one row per txHash, and an insert_log whose
\* tx_hash is already stored leaves the logs table unchanged.
C1_OneRowPerTxHash ==
    [][/\ UniqueTxHash(logs')
       /\ (last'.op = "insert_log" /\ Stored(logs, last'.entry.tx_hash)) => logs' = logs]_vars

\* An insert_log of a stored txHash has returned True
C1_Witness ==
    /\ last.op = "insert_log"
    /\ last.dup
    /\ last.ret = "True"
    /\ Cardinality(logs) >= 2

\* C2: a sync_cache that directly follows a sync_cache, both fetching the same
\* events and both running on working storage, leaves the totals that
\* get_stats reports (total_devices, total_logs) as they were after the first.
C2_SyncTwiceSameStats ==
    [][(/\ last.op = "sync_cache" /\ FetchSucceeded(last)
        /\ last'.op = "sync_cache" /\ FetchSucceeded(last')
        /\ last'.fetched = last.fetched
        /\ storageOk /\ storageOk')
       => get_stats(conn', storageOk', devices', logs').totals
            = get_stats(conn, storageOk, devices, logs).totals]_vars

\* A sync_cache over fetched events ran on a cache that already held all of them
C2_Witness ==
    /\ last.op = "sync_cache"
    /\ last.outcome = "ok"
    /\ Len(last.fetched) >= 2
    /\ last.committed = Len(last.fetched)
    /\ storageOk /\ conn = "open"
    /\ last.pre = Cardinality(logs)
    /\ last.pre >= 2
    /\ devices # {}

\* C3: a sync_cache whose ledger fetch failed returns an envelope whose status
\* is not "success".
C3_FetchFailureReported ==
    (last.op = "sync_cache" /\ FetchFailed(last)) => last.ret # "success"

\* C4: a sync_cache whose ledger fetch failed leaves the logs table and the
\* devices table as they were.
C4_FailedFetchLeavesStore ==
    [][(last'.op = "sync_cache" /\ FetchFailed(last'))
       => (logs' = logs /\ devices' = devices)]_vars

\* The fetch failed on a ledger that holds events the cache does not have yet
C4_Witness ==
    /\ last.op = "sync_cache"
    /\ last.outcome = "malformed"
    /\ storageOk /\ conn = "open"
    /\ logs # {}
    /\ devices # {}
    /\ \E i \in 1..Len(ledger) : ~Stored(logs, hex(ledger[i].transactionHash))

\* C5: when an entry is inserted and then an entry with the same txHash but
\* different fields, exactly one row with that txHash is stored and its
\* device, success, reason and timestamp are those of the first entry.
C5_FirstWriteWins ==
    [][(/\ IsInsert(last) /\ last.ret = "True" /\ ~last.dup
        /\ IsInsert(last') /\ last'.entry.tx_hash = last.entry.tx_hash
        /\ last'.entry # last.entry)
       => \E id \in 1..seq :
             {r \in logs' : r.txHash = last.entry.tx_hash} = {LogRow(id, last.entry)}]_vars

\* A second entry with a stored txHash and another reason has been inserted
C5_Witness ==
    /\ IsInsert(last)
    /\ last.dup
    /\ last.ret = "True"
    /\ \E r \in logs : /\ r.txHash = last.entry.tx_hash
                       /\ r.reason # last.entry.reason
                       /\ r.device # last.entry.device
                       /\ r.timestamp # last.entry.timestamp
                       /\ r.success # int(last.entry.success)

\* C6 (as claimed): on working storage, insert_log of a stored txHash right
\* after the insert_log that stored it returns a value that is no failure and
\* differs from the value returned for the newly inserted row.
C6_DuplicateDistinguishable ==
    [][(/\ IsInsert(last) /\ last.ret = "True" /\ ~last.dup
        /\ IsInsert(last') /\ last'.dup
        /\ last'.entry.tx_hash = last.entry.tx_hash
        /\ storageOk /\ conn = "open")
       => (last'.ret \notin {"False", "ProgrammingError"} /\ last'.ret # last.ret)]_vars

\* C6 (amended): on working storage insert_log and sync_log return True both
\* for a txHash that is already stored and for a newly inserted row; neither
\* case is reported as a failure or raises, and the returned value is the same.
C6_DuplicateReturnsTrue ==
    [][(IsInsert(last') /\ storageOk /\ conn = "open") => last'.ret = "True"]_vars

\* sync_log of a stored txHash has returned True
C6_Witness ==
    /\ last.op = "sync_log"
    /\ last.dup
    /\ last.ret = "True"
    /\ Stored(logs, last.entry.tx_hash)

\* The rows sorted by timestamp descending, rows of equal timestamp by id descending
RECURSIVE SortTimestampIdDesc(_)
SortTimestampIdDesc(rows) ==
    IF rows = {} THEN <<>>
    ELSE LET m == CHOOSE r \in rows :
                     \A o \in rows : \/ o.timestamp < r.timestamp
                                     \/ (o.timestamp = r.timestamp /\ o.id <= r.id)
         IN  <<m>> \o SortTimestampIdDesc(rows \ {m})

ReadDone(op) == last.op = op /\ last.ret = "ok" /\ storageOk /\ conn = "open"

Timestamps(rs) == [i \in 1..Len(rs) |-> rs[i].timestamp]

\* rs enumerates, without repetition and most recent first, rows of the set
\* from, and no row of from that rs omits is more recent than a row of rs
RecentFirst(rs, from) ==
    /\ \A i \in 1..Len(rs) : rs[i] \in from
    /\ \A i, j \in 1..Len(rs) : i < j => (rs[i] # rs[j] /\ rs[i].timestamp >= rs[j].timestamp)
    /\ \A r \in from \ Range(rs) : \A i \in 1..Len(rs) : rs[i].timestamp >= r.timestamp

\* C7 (as claimed): for limit > 0, fetch_logs(limit) returns the first
\* min(limit, N) rows of the stored rows sorted by timestamp descending, rows
\* of equal timestamp by id descending.
C7_TiesByIdDescending ==
    (ReadDone("fetch_logs") /\ last.limit > 0)
    => last.rows = Take(SortTimestampIdDesc(logs), last.limit)

\* C7 (amended): for limit > 0, fetch_logs(limit) returns min(limit, N) distinct
\* stored rows with non-increasing timestamps, and no omitted row is more
\* recent than a returned one; rows stored with timestamps 100, 300, 200 (in
\* this order) come back for limit 3 as 300, 200, 100.
C7_MostRecentFirst ==
    (ReadDone("fetch_logs") /\ last.limit > 0)
    => /\ Len(last.rows) = Min(last.limit, Cardinality(logs))
       /\ RecentFirst(last.rows, logs)
       /\ (last.limit = 3 /\ Timestamps(SortTimestampIdDesc(logs)) = <<300, 200, 100>>)
             => Timestamps(last.rows) = <<300, 200, 100>>

\* fetch_logs(3) has run on rows inserted with timestamps 100, 300, 200
C7_Witness ==
    /\ ReadDone("fetch_logs")
    /\ last.limit = 3
    /\ {<<r.id, r.timestamp>> : r \in logs} = {<<1, 100>>, <<2, 300>>, <<3, 200>>}
    /\ Timestamps(last.rows) = <<300, 200, 100>>

\* C8: for every limit <= 0 and any rows stored, fetch_logs(limit) and
\* get_cached_logs(limit) on a working store return an empty sequence.
C8_NonPositiveLimitEmpty ==
    (/\ last.op \in {"fetch_logs", "get_cached_logs"}
     /\ last.limit <= 0
     /\ storageOk /\ conn = "open")
    => (last.rows = <<>> /\ last.ret \in {"ok", "success"})

\* C9: get_device_logs(address, limit) returns only rows whose device is
\* address, most recent first as fetch_logs does, and for limit >= 0 it
\* returns min(limit, n) of the n stored rows of that device; with exactly the
\* row of the first transaction (device 0xA) and the row of the second
\* (device 0xB, later timestamp) stored, get_device_logs("0xA", limit >= 1)
\* returns exactly the row of the first transaction.
C9_DeviceLogsFiltered ==
    ReadDone("get_device_logs")
    => LET mine == {r \in logs : r.device = last.address}
       IN  /\ \A i \in 1..Len(last.rows) : last.rows[i].device = last.address
           /\ RecentFirst(last.rows, mine)
           /\ last.limit >= 0 => Len(last.rows) = Min(last.limit, Cardinality(mine))
           /\ (/\ last.address = "0xA" /\ last.limit >= 1
               /\ {<<r.txHash, r.device>> : r \in logs}
                     = {<<hex(1), "0xA">>, <<hex(2), "0xB">>})
                 => (Len(last.rows) = 1 /\ last.rows[1].txHash = hex(1))

\* get_device_logs("0xA", 100) has run with the rows of transaction 1
\* (device 0xA) and transaction 2 (device 0xB, later timestamp) stored
C9_Witness ==
    /\ ReadDone("get_device_logs")
    /\ last.address = "0xA"
    /\ last.limit = DefaultLimit
    /\ \E a, b \in logs :
          /\ logs = {a, b}
          /\ a.txHash = hex(1) /\ a.device = "0xA"
          /\ b.txHash = hex(2) /\ b.device = "0xB"
          /\ a.timestamp < b.timestamp
          /\ last.rows = <<a>>

----------------------------------------------------------------------------
(* Properties of the devices table *)

UniqueAddress(rows) == \A r1, r2 \in rows : r1.address = r2.address => r1 = r2

IsInsertDevice(l) == l.op \in {"insert_device", "sync_device"}

\* C11: after every step the devices table holds at most one row per address,
\* and after an insert_device (or sync_device) that returned True the row of
\* that address carries the name, role and metadata of that call, also when
\* a row of the address was stored before (name "X" then "Y" leaves "Y").
C11_OneRowPerAddressLastWins ==
    [][/\ UniqueAddress(devices')
       /\ (IsInsertDevice(last') /\ last'.ret = "True")
             => \E r \in devices' :
                   /\ r.address = last'.device.address
                   /\ r.name = last'.device.name
                   /\ r.role = last'.device.role
                   /\ r.metadata = last'.device.metadata]_vars

\* Address 0xA was stored with name "X" or "Y" and has just been written
\* again with name "Y", next to a row of 0xB
C11_Witness ==
    /\ last.op = "insert_device"
    /\ last.dup
    /\ last.ret = "True"
    /\ last.device.name = "Y"
    /\ Cardinality(devices) = 2

\* C12 as the specification states it: an insert_device for an address that
\* has a row leaves the registeredAt of that row as it was.
C12_RegisteredAtSetOnce ==
    [][IsInsertDevice(last')
          => \A r \in devices, r2 \in devices' :
                r.address = r2.address => r2.registeredAt = r.registeredAt]_vars

\* C12 amended: after an insert_device that returned True the registeredAt of
\* the row of that address is the registered_at argument of that call, and
\* the rows of the other addresses keep theirs.
C12_RegisteredAtLastWins ==
    [][(IsInsertDevice(last') /\ last'.ret = "True")
          => /\ \A r2 \in devices' :
                   r2.address = last'.device.address
                      => r2.registeredAt = last'.device.registeredAt
             /\ \A r \in devices :
                   r.address # last'.device.address => r \in devices']_vars

\* A row of 0xA has been replaced by a call with another registered_at
C12_Witness ==
    /\ IsInsertDevice(last)
    /\ last.dup
    /\ last.ret = "True"
    /\ last.pre = 1
    /\ last.device.registeredAt = 2
    /\ \E r \in devices : r.address = "0xA" /\ r.registeredAt = 2

----------------------------------------------------------------------------
(* Properties of the facade *)

AddressOps ==
    {"register_device", "grant_access", "revoke_access", "assign_role",
     "check_access", "get_device_info"}

TransactionOps ==
    {"register_device", "grant_access", "revoke_access", "assign_role", "log_access"}

\* The contract functions an operation looks up
FunctionsOf(op) ==
    IF op = "register_device" THEN {"registerDevice"}
    ELSE IF op = "grant_access" THEN {"grantAccess"}
    ELSE IF op = "revoke_access" THEN {"revokeAccess"}
    ELSE IF op = "assign_role" THEN {"assignRole"}
    ELSE IF op = "log_access" THEN {"logAccess"}
    ELSE IF op = "check_access" THEN CheckAccessNames
    ELSE IF op = "get_device_info" THEN DeviceInfoNames
    ELSE {}

Malformed(a) == to_checksum_address(a).raised

\* The operation got as far as the contract
ReachesContract(l) ==
    /\ l.op \in AddressOps \cup TransactionOps
    /\ l.op \in AddressOps => ~Malformed(l.address)

C14_StatusTracksOutcome ==
    (last.op \in TransactionOps /\ FunctionsOf(last.op) \subseteq last.abi)
       => /\ ~last.raised
          /\ last.ret \in {"success", "failed", "error"}
          /\ last.ret = "success" <=> (ReachesContract(last) /\ last.outcome = "mined")
          /\ (ReachesContract(last) /\ last.outcome \in {"reverted", "revert_raised"})
                => last.ret = "failed"
          /\ last.ret = "error" => (~ReachesContract(last) \/ last.outcome = "unreachable")

\* A fault of the ledger collaborator met by an operation: the node is
\* unreachable, the contract call fails, the function or the event is not in
\* the ABI
LedgerFault(l) ==
    \/ /\ ReachesContract(l)
       /\ \/ l.outcome \in {"unreachable", "revert_raised"}
          \/ FunctionsOf(l.op) \cap l.abi = {}
    \/ /\ l.op = "get_logs"
       /\ l.outcome \in {"unreachable", "no_event"}

\* C15: an operation of the facade that meets a fault of the ledger
\* collaborator raises no exception and returns an error envelope.
C15_LedgerFaultsBecomeErrors ==
    LedgerFault(last) => (~last.raised /\ last.ret = "error")

----------------------------------------------------------------------------
(* Properties of the store under storage faults *)

\* C16: an insert_device or insert_log on an open connection whose storage
\* does not execute the statement returns False and leaves the devices and
\* logs tables as they were; whenever the storage executes statements (again)
\* the same operations return True and the row of the call is stored.
C16_FailedInsertRolledBack ==
    [][/\ (last'.op \in {"insert_device", "insert_log"} /\ conn = "open" /\ ~storageOk)
             => (last'.ret = "False" /\ devices' = devices /\ logs' = logs)
       /\ (last'.op = "insert_device" /\ conn = "open" /\ storageOk)
             => (last'.ret = "True" /\ last'.device \in devices')
       /\ (last'.op = "insert_log" /\ conn = "open" /\ storageOk)
             => (last'.ret = "True" /\ Stored(logs', last'.entry.tx_hash))]_vars

\* An insert_device for a stored address has failed on a cache with rows in
\* both tables
C16_Witness ==
    /\ last.op = "insert_device"
    /\ last.ret = "False"
    /\ last.dup
    /\ ~storageOk
    /\ logs # {}

----------------------------------------------------------------------------
(* Properties of concurrent callers *)

ThreadReads == {"get_stats", "get_device", "fetch_logs"}

\* What a read returns on the committed tables drows, lrows
ReadsCommitted(l, drows, lrows) ==
    /\ l.op = "get_stats" => l.totals = Counts(drows, lrows)
    /\ l.op = "get_device"
          => l.device = IF HasAddress(drows, l.address)
                        THEN CHOOSE r \in drows : r.address = l.address
                        ELSE NoDevice
    /\ l.op = "fetch_logs" => (Range(l.rows) = lrows /\ Len(l.rows) = Cardinality(lrows))

----------------------------------------------------------------------------
(* Properties of sync_cache and of the lifetime of rows *)

\* C18: a sync_cache whose fetch from the ledger succeeded returns status
\* success, whatever the inserts of the fetched records did.
C18_SyncSucceedsWhenFetchSucceeds ==
    (last.op = "sync_cache" /\ FetchSucceeded(last)) => last.ret = "success"

\* C19: a step that is no clear_logs and no clear_devices (insert_log,
\* insert_device, sync_cache, get_stats, a recovery of the storage) keeps
\* every row of the logs table with all its fields and keeps a row for every
\* address of the devices table.
C19_RowsRemovedOnlyByClear ==
    [][last'.op \notin {"clear_logs", "clear_devices"}
          => /\ logs \subseteq logs'
             /\ \A d \in devices : HasAddress(devices', d.address)]_vars

\* A sync_cache has run over a cache that held rows in both tables, after an
\* insert of the second event of a stored transaction hash
C19_Witness ==
    /\ last.op = "sync_cache"
    /\ last.ret = "success"
    /\ last.pre >= 1
    /\ Cardinality(logs) > last.pre
    /\ Cardinality(devices) = 2
    /\ seq > Cardinality(logs)

\* C20: a clear_logs that returned True leaves no row in logs and the devices
\* table as it was, a clear_devices that returned True leaves no row in
\* devices and the logs table as it was; get_stats on the state after the
\* call reports 0 for the cleared table and the count of the other table;
\* on working storage both return True.
C20_ClearFrame ==
    [][/\ (last'.op = "clear_logs" /\ last'.ret = "True")
             => /\ logs' = {}
                /\ devices' = devices
                /\ get_stats(conn', storageOk', devices', logs').totals
                     = [total_devices |-> Cardinality(devices), total_logs |-> 0]
       /\ (last'.op = "clear_devices" /\ last'.ret = "True")
             => /\ devices' = {}
                /\ logs' = logs
                /\ get_stats(conn', storageOk', devices', logs').totals
                     = [total_devices |-> 0, total_logs |-> Cardinality(logs)]
       /\ (last'.op \in {"clear_logs", "clear_devices"} /\ conn = "open" /\ storageOk)
             => last'.ret = "True"]_vars

\* clear_logs has removed two or more rows and two devices are left
C20_Witness ==
    /\ last.op = "clear_logs"
    /\ last.ret = "True"
    /\ last.pre >= 2
    /\ logs = {}
    /\ Cardinality(devices) = 2

----------------------------------------------------------------------------
(* Properties of the facade and the cache *)

\* C21: a step of register_device, grant_access, revoke_access, assign_role
\* or log_access leaves the devices table, the logs table, the id sequence
\* and the connection of the cache as they were, whether the transaction is
\* mined with status 1, reverts, is rejected or never reaches the node.
C21_WriteOpsLeaveCache ==
    [][last'.op \in TransactionOps
          => <<conn', devices', logs', seq', txn'>> = <<conn, devices, logs, seq, txn>>]_vars

\* register_device for 0xB has been mined while the cache holds a row of 0xA
\* and none of 0xB
C21_Witness ==
    /\ last.op = "register_device"
    /\ last.address = "0xB"
    /\ last.ret = "success"
    /\ devices # {}
    /\ ~HasAddress(devices, "0xB")

\* C22: the id sequence of logs never decreases and no stored id is above
\* it, so it bounds every id assigned so far, the ids of rows removed by
\* clear_logs included; every row that a step adds has an id above the
\* sequence as it was before the step, whatever was cleared or ignored as a
\* duplicate before.
C22_IdsIncreaseNeverReused ==
    [][/\ seq' >= seq
       /\ \A r \in logs' : r.id <= seq'
       /\ \A r \in logs' \ logs : r.id > seq]_vars

\* A new row has been stored after earlier ids were used up by rows that
\* clear_logs removed or by ignored duplicates
C22_Witness ==
    /\ last.op = "insert_log"
    /\ last.ret = "True"
    /\ ~last.dup
    /\ Cardinality(logs) = 1
    /\ \E r \in logs : r.id = seq /\ r.id >= 3

\* C23: a get_stats on an open connection whose storage executes statements
\* returns total_devices equal to the number of rows of the devices table and
\* total_logs equal to the number of rows of the logs table at that moment,
\* after every sequence of inserts, duplicates, clears and recovered faults.
C23_StatsAreFresh ==
    (last.op = "get_stats" /\ conn = "open" /\ storageOk)
       => /\ last.ret = "ok"
          /\ last.totals.total_devices = Cardinality(devices)
          /\ last.totals.total_logs = Cardinality(logs)

\* get_stats has counted two rows in each table after more than two ids were
\* used (an ignored duplicate or a clear_logs lies before)
C23_Witness ==
    /\ last.op = "get_stats"
    /\ storageOk
    /\ last.totals = [total_devices |-> 2, total_logs |-> 2]
    /\ seq > 2

\* C24: a get_cached_logs made while the storage under the open connection
\* does not execute statements returns an envelope with status error.
C24_CacheFaultReported ==
    (last.op = "get_cached_logs" /\ conn = "open" /\ ~storageOk) => last.ret = "error"

----------------------------------------------------------------------------
(* Properties of the configuration *)

\* The value of a required variable was written by an earlier build()
FromBuilder(v) == v \in {"v1", "v2"}

\* C25: Config(env_file) with a file that lacks a required variable, and
\* build() of a builder on which a required field was never set (the file
\* .env lacking it as well), end with ConfigurationError also when an earlier
\* build() in the process had that field set.
C25_MissingParameterRejected ==
    /\ (/\ last.op = "Config"
        /\ \E k \in RequiredKeys : last.dotenv[k] = "" /\ FromBuilder(last.config[k]))
          => last.ret = "ConfigurationError"
    /\ (/\ last.op = "build"
        /\ \E k \in RequiredKeys :
              last.builder[k] = "" /\ last.dotenv[k] = "" /\ FromBuilder(last.config[k]))
          => last.ret = "ConfigurationError"

----------------------------------------------------------------------------
(* Properties of the store on an unusable handle *)

StoreOps ==
    {"insert_log", "insert_device", "fetch_logs", "get_device", "get_device_logs",
     "get_stats", "clear_logs", "clear_devices"}

\* C26: no store operation ends with an exception: on a closed connection
\* each returns its failure value.
C26_StoreOpsNeverRaise ==
    last.op \in StoreOps => last.ret # "ProgrammingError"

----------------------------------------------------------------------------
(* Properties of a complete sync_cache *)

FetchedHashes(l) == {l.fetched[i].tx_hash : i \in 1..Len(l.fetched)}

\* The first fetched entry with transaction hash h
FirstFetched(l, h) ==
    l.fetched[CHOOSE i \in 1..Len(l.fetched) :
                 /\ l.fetched[i].tx_hash = h
                 /\ \A j \in 1..(i - 1) : l.fetched[j].tx_hash # h]

\* C27: after a sync_cache whose fetch succeeded and whose inserts all ran on
\* working storage, the txHashes of the logs table are those stored before
\* together with those of the fetched events, the number of rows added is the
\* number of fetched txHashes that were not stored, and the row added for a
\* txHash carries the fields of the first fetched event with that hash.
C27_SyncIsUnionFirstWins ==
    [][(/\ last'.op = "sync_cache" /\ FetchSucceeded(last')
        /\ conn = "open" /\ storageOk /\ storageOk'
        /\ last'.committed = Len(last'.fetched))
       => /\ last'.ret = "success"
          /\ {r.txHash : r \in logs'} = {r.txHash : r \in logs} \cup FetchedHashes(last')
          /\ logs \subseteq logs'
          /\ Cardinality(logs') - Cardinality(logs)
               = Cardinality(FetchedHashes(last') \ {r.txHash : r \in logs})
          /\ \A r \in logs' \ logs :
                LET e == FirstFetched(last', r.txHash)
                IN  /\ r.device = e.device
                    /\ r.success = int(e.success)
                    /\ r.reason = e.reason
                    /\ r.timestamp = e.timestamp]_vars

\* Three events of two transactions were fetched into a cache that held one
\* of the two hashes: one row was added
C27_Witness ==
    /\ last.op = "sync_cache"
    /\ last.outcome = "ok"
    /\ Len(last.fetched) = 3
    /\ Cardinality(FetchedHashes(last)) = 2
    /\ last.committed = 3
    /\ storageOk
    /\ last.pre = 1
    /\ Cardinality(logs) = 2

\* C28: a step of sync_cache leaves the devices table as it was, for every
\* outcome of the fetch and of the inserts, and no step of sync_cache or
\* close adds a row to it.
C28_SyncLeavesDevices ==
    [][/\ last'.op = "sync_cache" => devices' = devices
       /\ last'.op \in {"sync_cache", "close"} => devices' \subseteq devices]_vars

\* sync_cache has stored events of device 0xB while the devices table holds
\* a row of 0xA only
C28_Witness ==
    /\ last.op = "sync_cache"
    /\ last.ret = "success"
    /\ last.committed >= 2
    /\ \E r \in logs : r.device = "0xB"
    /\ devices # {}
    /\ ~HasAddress(devices, "0xB")

====
